---- MODULE Spec2Model ----
(***************************************************************************)
(* The task wiring of esp32/src/main.cpp: seven TaskScheduler tasks on one *)
(* Scheduler chain, setup() and loop().                                    *)
(*                                                                         *)
(* The Task and Scheduler operations (enable, restart, restartDelayed,     *)
(* disable, execute) are those of the TaskScheduler library that line 8    *)
(* includes; HappyHerbsState and HappyHerbsService live in happy_herbs.h,  *)
(* which main.cpp only uses.                                               *)
(*                                                                         *)
(* Time is millis() counted in model units.  The durations below are       *)
(* scaled down and keep the order of the durations of main.cpp (two pairs  *)
(* fall together); unsigned wrap-around of millis() is left out, only      *)
(* differences of times are ever used.                                     *)
(***************************************************************************)
EXTENDS Integers, Sequences, FiniteSets, TLC

\* ---------------------------------------------------------------- bounds
MaxTime == 3

\* ------------------------------------------------- TaskScheduler constants
TASK_IMMEDIATE == 0
TASK_ONCE == 1
TASK_FOREVER == -1

\* ------------------------------------------------- durations of main.cpp
ShadowDelayAfterConnect == 1     \* restartDelayed(500)
PumpDose == 2                    \* 5 * TASK_SECOND
MeasurementsPeriod == 2          \* 10 * TASK_MINUTE
MoisturePeriod == 3              \* 15 * TASK_MINUTE
LightPeriod == 3                 \* 30 * TASK_MINUTE

\* ------------------------------------------------- sensor and threshold values
SensorError == -1
LightReadings == {SensorError, 75, 120}
MoistureReadings == {SensorError, 300, 400, 450}
LightThresholds == {50, 100}
MoistureThresholds == {400}
DEFAULT_LIGHT_THRESHOLD == 100
DEFAULT_MOISTURE_THRESHOLD == 400

\* ------------------------------------------------- the scheduler chain
\* Tasks are appended to taskManager's chain by their constructors, in the
\* order of their definitions in main.cpp.
Chain ==
  << "tPublishShadowUpdate", "tPublishSensorsMeasurements", "tTurnOnWaterPump",
     "tHappyHerbsServiceLoop", "tPeriodicSensorsMeasurementsPublish",
     "tTurnOnWaterPumpBaseOnMoisture", "tTurnOnLampBaseOnLightMeter" >>

TaskNames == { Chain[i] : i \in 1..Len(Chain) }

TaskIndex == [t \in TaskNames |-> CHOOSE i \in 1..Len(Chain) : Chain[i] = t]

IndexOf(t) == TaskIndex[t]

\* A faulty variant for C10: the shadow publish configured for two iterations.
tPublishShadowUpdate_Twice ==
  [iInterval |-> TASK_IMMEDIATE, iSetIterations |-> 2,
   hasCallback |-> TRUE, hasOnEnable |-> FALSE, hasOnDisable |-> FALSE]

tPublishShadowUpdate ==
  [iInterval |-> TASK_IMMEDIATE, iSetIterations |-> TASK_ONCE,
   hasCallback |-> TRUE, hasOnEnable |-> FALSE, hasOnDisable |-> FALSE]

tPublishSensorsMeasurements ==
  [iInterval |-> TASK_IMMEDIATE, iSetIterations |-> TASK_ONCE,
   hasCallback |-> TRUE, hasOnEnable |-> FALSE, hasOnDisable |-> FALSE]

tTurnOnWaterPump ==
  [iInterval |-> PumpDose, iSetIterations |-> TASK_ONCE,
   hasCallback |-> FALSE, hasOnEnable |-> TRUE, hasOnDisable |-> TRUE]

tHappyHerbsServiceLoop ==
  [iInterval |-> TASK_IMMEDIATE, iSetIterations |-> TASK_FOREVER,
   hasCallback |-> TRUE, hasOnEnable |-> FALSE, hasOnDisable |-> FALSE]

tPeriodicSensorsMeasurementsPublish ==
  [iInterval |-> MeasurementsPeriod, iSetIterations |-> TASK_FOREVER,
   hasCallback |-> TRUE, hasOnEnable |-> FALSE, hasOnDisable |-> FALSE]

tTurnOnWaterPumpBaseOnMoisture ==
  [iInterval |-> MoisturePeriod, iSetIterations |-> TASK_FOREVER,
   hasCallback |-> TRUE, hasOnEnable |-> FALSE, hasOnDisable |-> FALSE]

\* A faulty variant for C19: the light rule configured to run once.
tTurnOnLampBaseOnLightMeter_Once ==
  [iInterval |-> LightPeriod, iSetIterations |-> TASK_ONCE,
   hasCallback |-> TRUE, hasOnEnable |-> FALSE, hasOnDisable |-> FALSE]

tTurnOnLampBaseOnLightMeter ==
  [iInterval |-> LightPeriod, iSetIterations |-> TASK_FOREVER,
   hasCallback |-> TRUE, hasOnEnable |-> FALSE, hasOnDisable |-> FALSE]

TaskDef(t) ==
  CASE t = "tPublishShadowUpdate" -> tPublishShadowUpdate
    [] t = "tPublishSensorsMeasurements" -> tPublishSensorsMeasurements
    [] t = "tTurnOnWaterPump" -> tTurnOnWaterPump
    [] t = "tHappyHerbsServiceLoop" -> tHappyHerbsServiceLoop
    [] t = "tPeriodicSensorsMeasurementsPublish" -> tPeriodicSensorsMeasurementsPublish
    [] t = "tTurnOnWaterPumpBaseOnMoisture" -> tTurnOnWaterPumpBaseOnMoisture
    [] t = "tTurnOnLampBaseOnLightMeter" -> tTurnOnLampBaseOnLightMeter

\* A task as its constructor leaves it (aEnable = false): reset() and set().
NewTask(t) ==
  [enabled |-> FALSE, iIterations |-> TaskDef(t).iSetIterations,
   iPreviousMillis |-> 0, iDelay |-> 0]


\* ------------------------------------------------- the program state
\* A world w is the part of the state that task code changes:
\*   tasks                the Task objects
\*   lampOn, pumpOn       HappyHerbsState's actuator states
\*   lightThreshold, moistureThreshold
\*   connected            what hhService.connected() returns
\*   trace                the calls made by the step being taken, in order
\*   cycle                what tTurnOnWaterPump's hooks did since its last
\*                        restart, and when
\*                        restart (log), the moisture reading that caused the
\*                        restart (reading), when the pump was written on
\*                        (onAt) and how long after that it was written
\*                        off (dose); -1: not yet
NoCycle == [log |-> << >>, reading |-> 0, onAt |-> -1, dose |-> -1]

Emit(w, op, arg) == [w EXCEPT !.trace = Append(@, <<op, arg>>)]

B2I(b) == IF b THEN 1 ELSE 0

\* ------------------------------------------------- HappyHerbsState
writeLampPinID(w, b) == Emit([w EXCEPT !.lampOn = b], "writeLampPinID", B2I(b))

writePumpPinID(w, b) == Emit([w EXCEPT !.pumpOn = b], "writePumpPinID", B2I(b))

setLightThreshold(w, v) == Emit([w EXCEPT !.lightThreshold = v], "setLightThreshold", v)

setMoistureThreshold(w, v) ==
  Emit([w EXCEPT !.moistureThreshold = v], "setMoistureThreshold", v)

\* ------------------------------------------------- TaskScheduler: Task
RECURSIVE Enable(_, _, _)
RECURSIVE Restart(_, _, _)
RECURSIVE OnEnable(_, _, _)
RECURSIVE OnDisable(_, _, _)

\* Task::enable(): iOnEnable decides iStatus.enabled, then the task is made
\* due at once: iPreviousMillis = millis() - (iDelay = iInterval).
Enable(w, t, m) ==
  LET r == IF TaskDef(t).hasOnEnable THEN OnEnable(w, t, m)
                                       ELSE [w |-> w, ok |-> TRUE]
  IN  [r.w EXCEPT !.tasks[t] =
         [@ EXCEPT !.enabled = r.ok,
                   !.iPreviousMillis = m - TaskDef(t).iInterval,
                   !.iDelay = TaskDef(t).iInterval]]

\* Task::restart(): iIterations = iSetIterations; enable().  No disable(), so
\* no iOnDisable.
Restart(w, t, m) ==
  Enable(Emit([w EXCEPT !.tasks[t].iIterations = TaskDef(t).iSetIterations],
              "restart", IndexOf(t)),
         t, m)

\* Task::delay(aDelay): iDelay = aDelay ? aDelay : iInterval;
\* iPreviousMillis = millis().
Delay(w, t, aDelay, m) ==
  [w EXCEPT !.tasks[t] =
     [@ EXCEPT !.iDelay = IF aDelay # 0 THEN aDelay ELSE TaskDef(t).iInterval,
               !.iPreviousMillis = m]]

\* Task::restartDelayed(aDelay): iIterations = iSetIterations; enable();
\* delay(aDelay).
RestartDelayed(w, t, aDelay, m) ==
  Delay(Enable(Emit([w EXCEPT !.tasks[t].iIterations = TaskDef(t).iSetIterations],
                    "restartDelayed", IndexOf(t)),
               t, m),
        t, aDelay, m)

\* Task::disable(): iOnDisable runs only if the task was enabled.  A disabled
\* task's iPreviousMillis and iDelay are read by nothing before the next
\* enable() sets both, so the model keeps them at 0 in a disabled task.
Disable(w, t, m) ==
  LET previousEnabled == w.tasks[t].enabled
      w1 == Emit([w EXCEPT !.tasks[t] =
                    [@ EXCEPT !.enabled = FALSE, !.iPreviousMillis = 0, !.iDelay = 0]],
                 "disable", IndexOf(t))
  IN  IF previousEnabled /\ TaskDef(t).hasOnDisable THEN OnDisable(w1, t, m) ELSE w1

\* ------------------------------------------------- main.cpp: hooks
\* tTurnOnWaterPump's function to call when the task is enabled.
PumpOnEnable(w, m) ==
  LET w1 == Emit(w, "onEnable", IndexOf("tTurnOnWaterPump"))
      w2 == writePumpPinID(w1, TRUE)
      w3 == [w2 EXCEPT !.cycle = [@ EXCEPT !.log = Append(@, "on"), !.onAt = m]]
      w4 == Restart(w3, "tPublishShadowUpdate", m)
  IN  [w |-> [w4 EXCEPT !.cycle.log = Append(@, "restart")], ok |-> TRUE]

\* A faulty variant for C17: the disable hook does not write the pump off.
PumpOnDisable_NoWrite(w, m) ==
  LET w1 == Emit(w, "onDisable", IndexOf("tTurnOnWaterPump"))
      w4 == Restart(w1, "tPublishShadowUpdate", m)
  IN  [w4 EXCEPT !.cycle.log = Append(@, "restart")]

\* tTurnOnWaterPump's function to call when the task is disabled.
PumpOnDisable(w, m) ==
  LET w1 == Emit(w, "onDisable", IndexOf("tTurnOnWaterPump"))
      w2 == writePumpPinID(w1, FALSE)
      w3 == [w2 EXCEPT !.cycle = [@ EXCEPT !.log = Append(@, "off"), !.onAt = -1,
                                           !.dose = m - w2.cycle.onAt]]
      w4 == Restart(w3, "tPublishShadowUpdate", m)
  IN  [w4 EXCEPT !.cycle.log = Append(@, "restart")]

OnEnable(w, t, m) ==
  IF t = "tTurnOnWaterPump" THEN PumpOnEnable(w, m) ELSE [w |-> w, ok |-> TRUE]

OnDisable(w, t, m) ==
  IF t = "tTurnOnWaterPump" THEN PumpOnDisable(w, m) ELSE w


\* ------------------------------------------------- HappyHerbsService
\* publishShadowUpdate() and publishSensorsMeasurements(): one publish on the
\* transport, whatever its state; the trace records whether connected() held.
publishShadowUpdate(w) == Emit(w, "publishShadowUpdate", B2I(w.connected))

publishSensorsMeasurements(w) == Emit(w, "publishSensorsMeasurements", B2I(w.connected))

\* A desired-state delta that loop() may deliver to handleCallback.
Deltas ==
  {[field |-> "none", value |-> 0]}
    \cup {[field |-> "lightThreshold", value |-> v] : v \in LightThresholds}
    \cup {[field |-> "moistureThreshold", value |-> v] : v \in MoistureThresholds}
    \cup {[field |-> f, value |-> v] : f \in {"lampOn", "pumpOn"}, v \in {0, 1}}

NoDelta == [field |-> "none", value |-> 0]

\* handleCallback(topic, payload, length): apply the recognised fields, then
\* publish the reported state again.
handleCallback(w, d) ==
  LET w1 == Emit(w, "handleCallback", 0)
      w2 == CASE d.field = "lightThreshold" -> setLightThreshold(w1, d.value)
              [] d.field = "moistureThreshold" -> setMoistureThreshold(w1, d.value)
              [] d.field = "lampOn" -> writeLampPinID(w1, d.value = 1)
              [] d.field = "pumpOn" -> writePumpPinID(w1, d.value = 1)
              [] OTHER -> w1
  IN  publishShadowUpdate(w2)

\* hhService.loop(): services the inbound messages, if there is one.
loop(w, d) ==
  LET w1 == Emit(w, "loop", 0)
  IN  IF d.field = "none" THEN w1 ELSE handleCallback(w1, d)

\* hhService.connect(): one handshake; ok is its outcome.
connect(w, ok) == Emit([w EXCEPT !.connected = ok], "connect", B2I(ok))

\* ------------------------------------------------- main.cpp: callbacks
\* What a callback reads from outside the program.
NoInput == [light |-> 0, moisture |-> 0, connectOk |-> FALSE, delta |-> NoDelta]

PublishShadowUpdateCallback(w) == publishShadowUpdate(w)

PublishSensorsMeasurementsCallback(w) == publishSensorsMeasurements(w)

\* A faulty variant for C3: the early return after loop() is missing, so
\* connect() is called in every execution.
HappyHerbsServiceLoopCallback_NoReturn(w, m, inp) ==
  LET w0 == Emit(w, "connected", B2I(w.connected))
      w1 == IF w.connected THEN loop(w0, inp.delta) ELSE w0
      w2 == connect(w1, inp.connectOk)
  IN  IF inp.connectOk
        THEN RestartDelayed(w2, "tPublishShadowUpdate", ShadowDelayAfterConnect, m)
        ELSE w2

\* A faulty variant for C18: after connect() the shadow publish is restarted
\* without the delay.
HappyHerbsServiceLoopCallback_Immediate(w, m, inp) ==
  LET w0 == Emit(w, "connected", B2I(w.connected))
  IN  IF w.connected
        THEN loop(w0, inp.delta)
        ELSE LET w1 == connect(w0, inp.connectOk)
             IN  IF inp.connectOk
                   THEN Restart(w1, "tPublishShadowUpdate", m)
                   ELSE w1

\* A faulty variant for C16: loop() is called without the connected() test.
HappyHerbsServiceLoopCallback_LoopAlways(w, m, inp) ==
  LET w0 == loop(w, inp.delta)
      w1 == Emit(w0, "connected", B2I(w.connected))
  IN  IF w.connected
        THEN w1
        ELSE LET w2 == connect(w1, inp.connectOk)
             IN  IF inp.connectOk
                   THEN RestartDelayed(w2, "tPublishShadowUpdate",
                                       ShadowDelayAfterConnect, m)
                   ELSE w2

\* A faulty variant for C15: after a failed connect() the task gives up.
HappyHerbsServiceLoopCallback_GiveUp(w, m, inp) ==
  LET w0 == Emit(w, "connected", B2I(w.connected))
  IN  IF w.connected
        THEN loop(w0, inp.delta)
        ELSE LET w1 == connect(w0, inp.connectOk)
             IN  IF inp.connectOk
                   THEN RestartDelayed(w1, "tPublishShadowUpdate",
                                       ShadowDelayAfterConnect, m)
                   ELSE Disable(w1, "tHappyHerbsServiceLoop", m)

HappyHerbsServiceLoopCallback(w, m, inp) ==
  LET w0 == Emit(w, "connected", B2I(w.connected))
  IN  IF w.connected
        THEN loop(w0, inp.delta)
        ELSE LET w1 == connect(w0, inp.connectOk)
             IN  IF inp.connectOk
                   THEN RestartDelayed(w1, "tPublishShadowUpdate",
                                       ShadowDelayAfterConnect, m)
                   ELSE w1

PeriodicSensorsMeasurementsPublishCallback(w, m) ==
  Restart(w, "tPublishSensorsMeasurements", m)

\* A faulty variant for C13: the comparison also holds at the threshold.
TurnOnWaterPumpBaseOnMoistureCallback_AtOrBelow(w, m, inp) ==
  LET w1 == Emit(w, "readMoistureSensor", inp.moisture)
  IN  IF inp.moisture <= w.moistureThreshold
        THEN Restart([w1 EXCEPT !.cycle = [NoCycle EXCEPT !.reading = inp.moisture]],
                     "tTurnOnWaterPump", m)
        ELSE w1

TurnOnWaterPumpBaseOnMoistureCallback(w, m, inp) ==
  LET w1 == Emit(w, "readMoistureSensor", inp.moisture)
  IN  IF inp.moisture < w.moistureThreshold
        THEN Restart([w1 EXCEPT !.cycle = [NoCycle EXCEPT !.reading = inp.moisture]],
                     "tTurnOnWaterPump", m)
        ELSE w1

\* A faulty variant for C4: the lamp is not written off before the test.
TurnOnLampBaseOnLightMeterCallback_NoOff(w, m, inp) ==
  LET w2 == Emit(w, "readLightSensorBH1750", inp.light)
      w3 == IF inp.light < w.lightThreshold THEN writeLampPinID(w2, TRUE) ELSE w2
  IN  Restart(w3, "tPublishShadowUpdate", m)

\* A faulty variant for C5: the comparison is the wrong way round.
TurnOnLampBaseOnLightMeterCallback_Above(w, m, inp) ==
  LET w1 == writeLampPinID(w, FALSE)
      w2 == Emit(w1, "readLightSensorBH1750", inp.light)
      w3 == IF inp.light > w.lightThreshold THEN writeLampPinID(w2, TRUE) ELSE w2
  IN  Restart(w3, "tPublishShadowUpdate", m)

\* A faulty variant for C14: the shadow publish is restarted only when the
\* lamp state changed.
TurnOnLampBaseOnLightMeterCallback_OnChange(w, m, inp) ==
  LET w1 == writeLampPinID(w, FALSE)
      w2 == Emit(w1, "readLightSensorBH1750", inp.light)
      w3 == IF inp.light < w.lightThreshold THEN writeLampPinID(w2, TRUE) ELSE w2
  IN  IF w3.lampOn # w.lampOn THEN Restart(w3, "tPublishShadowUpdate", m) ELSE w3

TurnOnLampBaseOnLightMeterCallback(w, m, inp) ==
  LET w1 == writeLampPinID(w, FALSE)
      w2 == Emit(w1, "readLightSensorBH1750", inp.light)
      w3 == IF inp.light < w.lightThreshold THEN writeLampPinID(w2, TRUE) ELSE w2
  IN  Restart(w3, "tPublishShadowUpdate", m)

Callback(w, t, m, inp) ==
  CASE t = "tPublishShadowUpdate" -> PublishShadowUpdateCallback(w)
    [] t = "tPublishSensorsMeasurements" -> PublishSensorsMeasurementsCallback(w)
    [] t = "tHappyHerbsServiceLoop" -> HappyHerbsServiceLoopCallback(w, m, inp)
    [] t = "tPeriodicSensorsMeasurementsPublish" ->
         PeriodicSensorsMeasurementsPublishCallback(w, m)
    [] t = "tTurnOnWaterPumpBaseOnMoisture" ->
         TurnOnWaterPumpBaseOnMoistureCallback(w, m, inp)
    [] t = "tTurnOnLampBaseOnLightMeter" ->
         TurnOnLampBaseOnLightMeterCallback(w, m, inp)
    [] OTHER -> w

\* ------------------------------------------------- TaskScheduler: Scheduler
\* Scheduler::execute(), for the task iCurrent points at:
\*   A. all iterations done: disable() and on to the next task;
\*   B. not due yet (millis() - iPreviousMillis < iDelay): on to the next task;
\*   otherwise count the iteration down, move iPreviousMillis on by iDelay,
\*   set iDelay = iInterval and call the callback, if there is one.
\* A faulty variant for C9: step B is missing, a task runs in every pass.
ExecuteTask_NoDelay(w, t, m, inp) ==
  LET T == w.tasks[t]
  IN  IF ~T.enabled THEN w
      ELSE IF T.iIterations = 0 THEN Disable(w, t, m)
      ELSE LET w1 == [w EXCEPT !.tasks[t] =
                        [@ EXCEPT !.iIterations = IF @ > 0 THEN @ - 1 ELSE @,
                                  !.iPreviousMillis = @ + T.iDelay,
                                  !.iDelay = TaskDef(t).iInterval]]
           IN  IF TaskDef(t).hasCallback
                 THEN Callback(Emit(w1, "callback", IndexOf(t)), t, m, inp)
                 ELSE w1

ExecuteTask(w, t, m, inp) ==
  LET T == w.tasks[t]
  IN  IF ~T.enabled THEN w
      ELSE IF T.iIterations = 0 THEN Disable(w, t, m)
      ELSE IF m - T.iPreviousMillis < T.iDelay THEN w
      ELSE LET w1 == [w EXCEPT !.tasks[t] =
                        [@ EXCEPT !.iIterations = IF @ > 0 THEN @ - 1 ELSE @,
                                  !.iPreviousMillis = @ + T.iDelay,
                                  !.iDelay = TaskDef(t).iInterval]]
           IN  IF TaskDef(t).hasCallback
                 THEN Callback(Emit(w1, "callback", IndexOf(t)), t, m, inp)
                 ELSE w1

\* Scheduler::execute(): one pass over the chain, from iFirst to the end.
RECURSIVE ExecuteFrom(_, _, _, _)
ExecuteFrom(w, i, m, inp) ==
  IF i > Len(Chain) THEN w
  ELSE ExecuteFrom(ExecuteTask(w, Chain[i], m, inp), i + 1, m, inp)

Execute(w, m, inp) == ExecuteFrom(w, 1, m, inp)

\* ------------------------------------------------- state
VARIABLES
  phase,              \* "boot": before setup(); "running": loop() is being
                      \* called; "idle": setup() returned early, nothing is
                      \* enabled; "wifi_wait": setup() never leaves its WiFi loop
  loadFailed,         \* the file whose load failed in setup(), or "none"
  wifiBegun,          \* WiFi.begin() was called
  now,                \* millis()
  tasks, lampOn, pumpOn, lightThreshold, moistureThreshold, connected,
  trace, cycle

vars ==
  << phase, loadFailed, wifiBegun, now, tasks, lampOn, pumpOn,
     lightThreshold, moistureThreshold, connected, trace, cycle >>

\* The world at the start of a step: the step's trace starts empty.
World ==
  [tasks |-> tasks, lampOn |-> lampOn, pumpOn |-> pumpOn,
   lightThreshold |-> lightThreshold, moistureThreshold |-> moistureThreshold,
   connected |-> connected, trace |-> << >>, cycle |-> cycle]

Becomes(w) ==
  /\ tasks' = w.tasks
  /\ lampOn' = w.lampOn
  /\ pumpOn' = w.pumpOn
  /\ lightThreshold' = w.lightThreshold
  /\ moistureThreshold' = w.moistureThreshold
  /\ connected' = w.connected
  /\ trace' = w.trace
  /\ cycle' = w.cycle

\* The state after the global constructors: every task is on the chain and
\* disabled (aEnable = false in all seven definitions).
Init ==
  /\ phase = "boot"
  /\ loadFailed = "none"
  /\ wifiBegun = FALSE
  /\ now = 0
  /\ tasks = [t \in TaskNames |-> NewTask(t)]
  /\ lampOn = FALSE
  /\ pumpOn = FALSE
  /\ lightThreshold = 0
  /\ moistureThreshold = 0
  /\ connected = FALSE
  /\ trace = << >>
  /\ cycle = NoCycle

\* ------------------------------------------------- setup()
\* The files setup() loads, in the order it loads them.
ConfigFiles == <<"fs", "misc", "endpoint", "rootca", "cert", "key", "thing">>

FileSet == { ConfigFiles[i] : i \in 1..Len(ConfigFiles) }

\* The loads after which setup() returns when they fail.  A failed load of
\* the misc credentials is not tested, and after a failed load of the thing
\* name setup() only prints.
ReturnsOnFailure(f) == f \in {"fs", "endpoint", "rootca", "cert", "key"}

\* Whether the loop on WiFi.status() can end: without the credentials of the
\* misc file WiFi.begin() joins no network.
WifiCanConnect(f) == f # "misc"

\* A faulty variant for C11: the last enable() of setup() is missing.
SetupTail_NoMoisture(w, m) ==
  LET w1 == writeLampPinID(w, FALSE)
      w2 == writePumpPinID(w1, FALSE)
      w3 == setLightThreshold(w2, DEFAULT_LIGHT_THRESHOLD)
      w4 == setMoistureThreshold(w3, DEFAULT_MOISTURE_THRESHOLD)
      w5 == Enable(w4, "tHappyHerbsServiceLoop", m)
      w6 == Enable(w5, "tPeriodicSensorsMeasurementsPublish", m)
  IN  Enable(w6, "tTurnOnLampBaseOnLightMeter", m)

\* The end of setup(), lines 224-232.
SetupTail(w, m) ==
  LET w1 == writeLampPinID(w, FALSE)
      w2 == writePumpPinID(w1, FALSE)
      w3 == setLightThreshold(w2, DEFAULT_LIGHT_THRESHOLD)
      w4 == setMoistureThreshold(w3, DEFAULT_MOISTURE_THRESHOLD)
      w5 == Enable(w4, "tHappyHerbsServiceLoop", m)
      w6 == Enable(w5, "tPeriodicSensorsMeasurementsPublish", m)
      w7 == Enable(w6, "tTurnOnLampBaseOnLightMeter", m)
  IN  Enable(w7, "tTurnOnWaterPumpBaseOnMoisture", m)

\* setup(), with failed the file whose load fails ("none": all succeed) and
\* wifiUp whether WiFi.status() ever becomes WL_CONNECTED.
Setup ==
  /\ phase = "boot"
  /\ \E failed \in FileSet \cup {"none"}, wifiUp \in BOOLEAN :
       /\ loadFailed' = failed
       /\ IF failed = "fs"
            THEN /\ phase' = "idle"
                 /\ wifiBegun' = FALSE
                 /\ Becomes(World)
            ELSE /\ wifiBegun' = TRUE
                 /\ IF ~(wifiUp /\ WifiCanConnect(failed))
                      THEN phase' = "wifi_wait" /\ Becomes(World)
                      ELSE IF ReturnsOnFailure(failed)
                             THEN phase' = "idle" /\ Becomes(World)
                             ELSE phase' = "running" /\ Becomes(SetupTail(World, now))
  /\ UNCHANGED now

\* ------------------------------------------------- loop()
\* A task is due in a pass taken at time m.
Due(t, m) ==
  /\ tasks[t].enabled
  /\ tasks[t].iIterations # 0
  /\ m - tasks[t].iPreviousMillis >= tasks[t].iDelay

\* What the callbacks of one pass may read from outside the program: a
\* sensor is read, connect() is called and a message is delivered only by a
\* callback that runs in the pass.
Inputs ==
  { [light |-> l, moisture |-> r, connectOk |-> ok, delta |-> d] :
      l \in IF Due("tTurnOnLampBaseOnLightMeter", now) THEN LightReadings ELSE {0},
      r \in IF Due("tTurnOnWaterPumpBaseOnMoisture", now) THEN MoistureReadings ELSE {0},
      ok \in IF connected THEN {FALSE} ELSE BOOLEAN,
      d \in IF connected THEN Deltas ELSE {NoDelta} }

\* loop(): one pass of taskManager.execute(), taken at one reading of
\* millis().
Loop ==
  /\ phase = "running"
  /\ \E inp \in Inputs : Becomes(Execute(World, now, inp))
  /\ UNCHANGED <<phase, loadFailed, wifiBegun, now>>

\* ------------------------------------------------- the environment
\* millis() moves on.
Tick ==
  /\ phase = "running"
  /\ now < MaxTime
  /\ now' = now + 1
  /\ trace' = << >>
  /\ UNCHANGED <<phase, loadFailed, wifiBegun, tasks, lampOn, pumpOn,
                 lightThreshold, moistureThreshold, connected, cycle>>

\* The transport fails: connected() returns false from now on.
ConnectionLost ==
  /\ phase = "running"
  /\ connected
  /\ connected' = FALSE
  /\ trace' = << >>
  /\ UNCHANGED <<phase, loadFailed, wifiBegun, now, tasks, lampOn, pumpOn,
                 lightThreshold, moistureThreshold, cycle>>

Next ==
  \/ Setup
  \/ Loop
  \/ Tick
  \/ ConnectionLost

Spec == Init /\ [][Next]_vars


\* ------------------------------------------------- reading the trace
HasIn(tr, op, arg) == \E i \in 1..Len(tr) : tr[i] = <<op, arg>>

Has(op, arg) == HasIn(trace, op, arg)

CalledIn(tr, op) == \E i \in 1..Len(tr) : tr[i][1] = op

\* The callback of task t ran in the step that led here.
Ran(t) == Has("callback", IndexOf(t))

RanIn(tr, t) == HasIn(tr, "callback", IndexOf(t))

\* Task t was re-armed in the step: restart() or restartDelayed().
RestartedIn(tr, t) ==
  HasIn(tr, "restart", IndexOf(t)) \/ HasIn(tr, "restartDelayed", IndexOf(t))

\* The calls of the execution that starts at tr[i]: up to the next task that
\* the pass runs or disables.
RECURSIVE BodyEnd(_, _)
BodyEnd(tr, j) ==
  IF j > Len(tr) \/ tr[j][1] \in {"callback", "disable"} THEN j ELSE BodyEnd(tr, j + 1)

Body(tr, i) == SubSeq(tr, i, BodyEnd(tr, i + 1) - 1)

IsPrefix(s, p) == Len(s) <= Len(p) /\ \A i \in 1..Len(s) : s[i] = p[i]

WateringCycle == <<"on", "restart", "off", "restart">>

PublishTasks == {"tPublishShadowUpdate", "tPublishSensorsMeasurements"}

\* setup() loaded every file.  The statements that the code contradicts are
\* stated for such a device, so that no other fault is part of the refutation.
CleanBoot == loadFailed = "none"

\* ------------------------------------------------- C1
\* C1: every restart of tTurnOnWaterPump results in exactly one pump-on write
\* followed by exactly one pump-off write, and the pump-off write comes no
\* sooner than the dose interval after the pump-on write.  (Stated for the
\* restarts caused by a genuine reading.)
C1_PumpDoseBounding ==
  (CleanBoot /\ cycle.reading # SensorError)
    => /\ IsPrefix(cycle.log, WateringCycle)
       /\ cycle.dose # -1 => cycle.dose >= PumpDose

\* ------------------------------------------------- C2
\* C2: the bodies of tPublishShadowUpdate and tPublishSensorsMeasurements
\* never execute while connected() is false.
C2_PublishGating ==
  CleanBoot
    => \A i \in 1..Len(trace) :
         (trace[i][1] = "callback" /\ Chain[trace[i][2]] \in PublishTasks)
           => trace[i + 1][2] = 1

\* ------------------------------------------------- C3
\* C3: connect() is called only by the callback of tHappyHerbsServiceLoop,
\* and only in an execution in which connected() returned false.
C3_ReconnectGating ==
  \A i \in 1..Len(trace) :
    trace[i][1] = "connect"
      => /\ i > 2
         /\ trace[i - 1] = <<"connected", 0>>
         /\ trace[i - 2] = <<"callback", IndexOf("tHappyHerbsServiceLoop")>>

C3_Witness == Has("connect", 1) /\ connected

\* ------------------------------------------------- C4
\* C4: after any execution of the light rule the lamp state equals
\* (reading < lightThreshold), whatever the lamp state was before.
C4_LightRuleIdempotence ==
  \A i \in 1..Len(trace) :
    trace[i][1] = "readLightSensorBH1750"
      => (lampOn <=> trace[i][2] < lightThreshold)

\* The lamp was on (a delta of this pass wrote it on), and the light rule,
\* reading a value at or above the threshold, left it off.
C4_Witness ==
  /\ Has("writeLampPinID", 1)
  /\ Has("readLightSensorBH1750", 120)
  /\ ~lampOn


\* ------------------------------------------------- C5
\* C5 as stated: in a pass in which a delta takes lightThreshold from 100 to 50
\* and the light rule then reads 75, the lamp is left on.
C5_AsStated ==
  [][(/\ CleanBoot
      /\ lightThreshold = 100
      /\ lightThreshold' = 50
      /\ HasIn(trace', "readLightSensorBH1750", 75)) => lampOn']_vars

\* C5, amended: a light-rule execution that reads 75 leaves the lamp off once
\* a delta has taken lightThreshold from 100 to 50, and turns it on while
\* lightThreshold is still 100.
C5_ThresholdChange ==
  [][HasIn(trace', "readLightSensorBH1750", 75)
       => /\ (lightThreshold = 100 /\ lightThreshold' = 50) => ~lampOn'
          /\ lightThreshold' = 100 => lampOn']_vars

C5_Witness ==
  /\ Has("setLightThreshold", 50)
  /\ Has("handleCallback", 0)
  /\ Has("readLightSensorBH1750", 75)
  /\ ~lampOn

\* ------------------------------------------------- C6
\* C6: if a load fails during setup(), no task is ever enabled and loop() is
\* never reached with something to run.
C6_LoadFailureIsFatal ==
  loadFailed # "none"
    => /\ \A t \in TaskNames : ~tasks[t].enabled
       /\ ~CalledIn(trace, "callback")

\* ------------------------------------------------- C7
\* C7: a sentinel reading triggers no actuation: the light rule does not turn
\* the lamp on and the moisture rule does not restart tTurnOnWaterPump.
C7_SentinelTolerance ==
  CleanBoot
    => /\ Has("readLightSensorBH1750", SensorError) => ~lampOn
       /\ Has("readMoistureSensor", SensorError)
            => ~Has("restart", IndexOf("tTurnOnWaterPump"))

\* ------------------------------------------------- C8
\* C8: the watering started by a moisture reading of 300 under a threshold of
\* 400 writes the pump on, restarts the shadow publish, and writes the pump
\* off after the dose interval, restarting the shadow publish once more.
C8_WateringScenario ==
  (CleanBoot /\ cycle.reading = 300 /\ cycle.dose # -1)
    => /\ cycle.log = WateringCycle
       /\ cycle.dose >= PumpDose

\* ------------------------------------------------- C9
Periodic ==
  {"tPeriodicSensorsMeasurementsPublish", "tTurnOnWaterPumpBaseOnMoisture",
   "tTurnOnLampBaseOnLightMeter"}

\* How often the callback of a periodic task has run since setup() enabled it
\* at time 0, from its Task object T: enable() sets iPreviousMillis one
\* interval back, and every execution moves it on by one interval.
ExecutionsOf(T, t) == (T.iPreviousMillis \div TaskDef(t).iInterval) + 1

Executions(t) == ExecutionsOf(tasks[t], t)

\* No callback occurs twice in tr.
OncePerPass(tr) ==
  \A i, j \in 1..Len(tr) :
    (i < j /\ tr[i][1] = "callback" /\ tr[j][1] = "callback") => tr[i][2] # tr[j][2]

C10_OneShotPublish ==
  [][/\ OncePerPass(trace')
     /\ \A t \in PublishTasks :
          /\ tasks'[t].iIterations \in {0, 1}
          /\ tasks'[t].iIterations = 1 => (~RanIn(trace', t) \/ RestartedIn(trace', t))
          /\ (~tasks[t].enabled \/ tasks[t].iIterations = 0) => ~RanIn(trace', t)]_vars

\* The shadow publish ran in this pass, was then restarted twice in the same
\* pass (by the pump's enable hook and by the light rule), and has one
\* iteration to run.
C10_Witness ==
  /\ \E i, j, k \in 1..Len(trace) :
       /\ i < j /\ j < k
       /\ trace[i] = <<"callback", IndexOf("tPublishShadowUpdate")>>
       /\ trace[j] = <<"restart", IndexOf("tPublishShadowUpdate")>>
       /\ trace[k] = <<"restart", IndexOf("tPublishShadowUpdate")>>
  /\ tasks["tPublishShadowUpdate"].iIterations = 1

\* ------------------------------------------------- C11
\* C11 as stated: after a successful setup() tTurnOnWaterPumpBaseOnMoisture is
\* disabled, the moisture rule never runs and never restarts tTurnOnWaterPump.
C11_AsStated ==
  (CleanBoot /\ phase = "running")
    => /\ ~tasks["tTurnOnWaterPumpBaseOnMoisture"].enabled
       /\ ~Ran("tTurnOnWaterPumpBaseOnMoisture")
       /\ ~Has("restart", IndexOf("tTurnOnWaterPump"))

\* C11, amended: after a successful setup() tTurnOnWaterPumpBaseOnMoisture is
\* enabled, and once a pass of loop() has been taken the moisture rule has run.
C11_MoistureRuleEnabled ==
  phase = "running"
    => /\ tasks["tTurnOnWaterPumpBaseOnMoisture"].enabled
       /\ CalledIn(trace, "callback")
            => tasks["tTurnOnWaterPumpBaseOnMoisture"].iPreviousMillis >= 0

\* The moisture rule ran and restarted tTurnOnWaterPump.
C11_Witness ==
  /\ CleanBoot
  /\ Ran("tTurnOnWaterPumpBaseOnMoisture")
  /\ Has("restart", IndexOf("tTurnOnWaterPump"))

\* ------------------------------------------------- C13
\* C13: an execution of the moisture rule restarts tTurnOnWaterPump if and only
\* if the reading is strictly below moistureThreshold; with the reading at or
\* above the threshold the execution restarts no task and writes no actuator:
\* it consists of the sensor read alone.
C13_MoistureRule ==
  \A i \in 1..Len(trace) :
    trace[i] = <<"callback", IndexOf("tTurnOnWaterPumpBaseOnMoisture")>>
      => LET body == Body(trace, i)
             reading == body[2][2]
         IN  /\ body[2][1] = "readMoistureSensor"
             /\ reading < moistureThreshold
                  <=> HasIn(body, "restart", IndexOf("tTurnOnWaterPump"))
             /\ reading >= moistureThreshold => Len(body) = 2
             /\ reading < moistureThreshold
                  => /\ Len(body) > 2
                     /\ body[3] = <<"restart", IndexOf("tTurnOnWaterPump")>>

\* The moisture rule read exactly the threshold and restarted nothing.
C13_Witness ==
  /\ Has("readMoistureSensor", 400)
  /\ moistureThreshold = 400
  /\ ~Has("restart", IndexOf("tTurnOnWaterPump"))
  /\ ~pumpOn

\* ------------------------------------------------- C14
\* C14: every execution of the light rule is, in this order, a lamp-off write,
\* the sensor read, a lamp-on write if and only if the reading is below
\* lightThreshold, and exactly one restart of tPublishShadowUpdate, whether or
\* not the lamp ends in the state it had before.
C14_LightRuleOrdering ==
  \A i \in 1..Len(trace) :
    trace[i] = <<"callback", IndexOf("tTurnOnLampBaseOnLightMeter")>>
      => LET body == Body(trace, i)
             n == Len(body)
         IN  /\ n \in {4, 5}
             /\ body[2] = <<"writeLampPinID", 0>>
             /\ body[3][1] = "readLightSensorBH1750"
             /\ n = 5 <=> body[3][2] < lightThreshold
             /\ n = 5 => body[4] = <<"writeLampPinID", 1>>
             /\ body[n] = <<"restart", IndexOf("tPublishShadowUpdate")>>
             /\ tasks["tPublishShadowUpdate"].enabled
             /\ tasks["tPublishShadowUpdate"].iIterations = 1

\* The first execution of the light rule, in the first pass after setup()
\* wrote the lamp off: the reading is above the threshold, the lamp ends off
\* as it was, and the shadow publish was restarted all the same.
C14_Witness ==
  /\ Ran("tTurnOnLampBaseOnLightMeter")
  /\ now = 0
  /\ Has("readLightSensorBH1750", 120)
  /\ ~Has("handleCallback", 0)
  /\ ~lampOn
  /\ Has("restart", IndexOf("tPublishShadowUpdate"))
  /\ tasks["tPublishShadowUpdate"].iIterations = 1

\* ------------------------------------------------- C15
\* A step that is a pass of loop(): millis() does not move and the transport
\* is not lost.
IsPass == phase = "running" /\ now' = now /\ (connected => connected')

\* C15: every pass of loop() executes tHappyHerbsServiceLoop and leaves it
\* enabled; while connected() is false the execution calls connect() and not
\* loop(); an execution whose connect() fails consists of the connected() test
\* and the connect() call alone, so it restarts or disables no task, and
\* connected() stays false; a connect() that succeeds makes connected() true,
\* and while connected() is true the execution calls loop().
C15_ConnectRetried ==
  [][IsPass
       => /\ RanIn(trace', "tHappyHerbsServiceLoop")
          /\ tasks'["tHappyHerbsServiceLoop"].enabled
          /\ ~connected => /\ HasIn(trace', "connect", B2I(connected'))
                            /\ ~CalledIn(trace', "loop")
          /\ connected => CalledIn(trace', "loop") /\ connected'
          /\ \A i \in 1..Len(trace') :
               trace'[i] = <<"connect", 0>>
                 => /\ ~connected'
                    /\ i > 2
                    /\ Body(trace', i - 2)
                         = << <<"callback", IndexOf("tHappyHerbsServiceLoop")>>,
                              <<"connected", 0>>, <<"connect", 0>> >>]_vars

\* A pass after the first one (the light rule has run before and does not run
\* now) in which connect() was attempted and failed.
C15_Witness ==
  /\ Has("connect", 0)
  /\ ~connected
  /\ tasks["tTurnOnLampBaseOnLightMeter"].iPreviousMillis >= 0
  /\ ~Ran("tTurnOnLampBaseOnLightMeter")
  /\ tasks["tHappyHerbsServiceLoop"].enabled

\* ------------------------------------------------- C16
\* How often op is called in tr.
RECURSIVE CountIn(_, _)
CountIn(tr, op) ==
  IF tr = << >> THEN 0
  ELSE (IF Head(tr)[1] = op THEN 1 ELSE 0) + CountIn(Tail(tr), op)

\* C16: hhService.loop() is called only by the callback of
\* tHappyHerbsServiceLoop, right after connected() returned true, and every
\* execution of that callback calls exactly one of loop() and connect():
\* loop() if connected() returned true, connect() if it returned false.
C16_LoopGating ==
  /\ \A i \in 1..Len(trace) :
       trace[i][1] = "loop"
         => /\ i > 2
            /\ trace[i - 1] = <<"connected", 1>>
            /\ trace[i - 2] = <<"callback", IndexOf("tHappyHerbsServiceLoop")>>
  /\ \A i \in 1..Len(trace) :
       trace[i] = <<"callback", IndexOf("tHappyHerbsServiceLoop")>>
         => LET body == Body(trace, i)
            IN  /\ CountIn(body, "loop") + CountIn(body, "connect") = 1
                /\ body[2][1] = "connected"
                /\ body[2][2] = 1 <=> CountIn(body, "loop") = 1

\* loop() was called, it delivered a delta, and connect() was not called.
C16_Witness ==
  /\ Has("loop", 0)
  /\ Has("handleCallback", 0)
  /\ ~CalledIn(trace, "connect")
  /\ connected

\* ------------------------------------------------- C17
\* C17 as stated: whenever tTurnOnWaterPump is not enabled, the last pump write
\* issued by setup() or by any task is false.
C17_AsStated ==
  (CleanBoot /\ phase = "running" /\ ~tasks["tTurnOnWaterPump"].enabled) => ~pumpOn

\* tr has a, b, c as three consecutive calls.
HasRun3(tr, a, b, c) ==
  \E i \in 1..(Len(tr) - 2) : tr[i] = a /\ tr[i + 1] = b /\ tr[i + 2] = c

\* C17, amended: whenever tTurnOnWaterPump is not enabled, the last pump write
\* issued by setup() or by a hook of tTurnOnWaterPump is false (cycle.onAt is
\* -1); every step that takes the task from enabled to disabled runs its
\* disable hook, which writes the pump off; a pump-on write comes from the
\* enable hook, with the task enabled at the end of the pass, or from a
\* desired-state delta.
C17_PumpOffGuarantee ==
  [][/\ ~tasks'["tTurnOnWaterPump"].enabled => cycle'.onAt = -1
     /\ (tasks["tTurnOnWaterPump"].enabled /\ ~tasks'["tTurnOnWaterPump"].enabled)
          => HasRun3(trace', <<"disable", IndexOf("tTurnOnWaterPump")>>,
                             <<"onDisable", IndexOf("tTurnOnWaterPump")>>,
                             <<"writePumpPinID", 0>>)
     /\ \A i \in 1..Len(trace') :
          trace'[i] = <<"writePumpPinID", 1>>
            => /\ i > 1
               /\ \/ trace'[i - 1] = <<"handleCallback", 0>>
                  \/ /\ trace'[i - 1] = <<"onEnable", IndexOf("tTurnOnWaterPump")>>
                     /\ tasks'["tTurnOnWaterPump"].enabled]_vars

\* The pass disabled tTurnOnWaterPump, whose disable hook wrote the pump off.
C17_Witness ==
  /\ Has("onDisable", IndexOf("tTurnOnWaterPump"))
  /\ ~tasks["tTurnOnWaterPump"].enabled
  /\ cycle.dose # -1
  /\ ~pumpOn

\* ------------------------------------------------- C18
\* C18: a connect() that succeeds is followed at once by
\* tPublishShadowUpdate.restartDelayed(), and if no restart() of the task
\* follows in the pass the task is left enabled with one iteration, due
\* ShadowDelayAfterConnect from now; a task so armed publishes no sooner than
\* that; a connect() that fails is followed by no restart, and nothing else
\* calls restartDelayed().
C18_PublishAfterReconnect ==
  [][/\ \A i \in 1..Len(trace') :
          /\ trace'[i] = <<"connect", 1>>
               => /\ i < Len(trace')
                  /\ trace'[i + 1] = <<"restartDelayed", IndexOf("tPublishShadowUpdate")>>
                  /\ (\A j \in (i + 2)..Len(trace') :
                         trace'[j] # <<"restart", IndexOf("tPublishShadowUpdate")>>)
                       => tasks'["tPublishShadowUpdate"]
                            = [enabled |-> TRUE, iIterations |-> 1,
                               iPreviousMillis |-> now,
                               iDelay |-> ShadowDelayAfterConnect]
          /\ trace'[i] = <<"connect", 0>>
               => (i = Len(trace') \/ trace'[i + 1][1] \notin {"restart", "restartDelayed"})
          /\ trace'[i][1] = "restartDelayed"
               => i > 1 /\ trace'[i - 1] = <<"connect", 1>>
     /\ (tasks["tPublishShadowUpdate"].iDelay = ShadowDelayAfterConnect
           /\ RanIn(trace', "tPublishShadowUpdate"))
          => now >= tasks["tPublishShadowUpdate"].iPreviousMillis + ShadowDelayAfterConnect]_vars

\* connect() succeeded in a pass taken after time 0 and the shadow publish is
\* armed with the delay.
C18_Witness ==
  /\ Has("connect", 1)
  /\ now > 0
  /\ tasks["tPublishShadowUpdate"].enabled
  /\ tasks["tPublishShadowUpdate"].iDelay = ShadowDelayAfterConnect
  /\ tasks["tPublishShadowUpdate"].iPreviousMillis = now

\* ------------------------------------------------- C19
Unbounded == Periodic \cup {"tHappyHerbsServiceLoop"}

\* C19: from the end of a setup() that enabled them, the four unbounded
\* periodic tasks are enabled in every state and keep an unbounded iteration
\* count, and no pass disables one of them.
C19_PeriodicStayArmed ==
  phase = "running"
    => \A t \in Unbounded :
         /\ tasks[t].enabled
         /\ tasks[t].iIterations = TASK_FOREVER
         /\ ~Has("disable", IndexOf(t))

\* At the end of the modelled time, a pass of loop() that ran the service
\* loop and, for the second time, the light rule and the moisture rule.
C19_Witness ==
  /\ now = MaxTime
  /\ now >= LightPeriod
  /\ Ran("tHappyHerbsServiceLoop")
  /\ Ran("tTurnOnLampBaseOnLightMeter")
  /\ Ran("tTurnOnWaterPumpBaseOnMoisture")
  /\ \A t \in Unbounded : tasks[t].enabled

====
